---------------------------- MODULE Spec2Model ----------------------------
(***************************************************************************)
(* Ray/surface intersection core of rustbeam (src/src/surfaces.rs):        *)
(* BoundingBox::intersects (slab test), Plane and Sphere implementations   *)
(* of Surface::closest_intersection.                                       *)
(*                                                                         *)
(* Numbers.  An f64 is modelled as an exact real of the form               *)
(*     (a + b * sqrt(q)) / d      a, b, q, d integers, q >= 0, d > 0       *)
(* which is closed under the operations the code performs on the inputs    *)
(* drawn here (integer points, rational directions, one square root per    *)
(* query).  d = 0 encodes the two infinities (a = 1: +inf, a = -1: -inf).  *)
(* Rounding, NaN and overflow to infinity are outside the model.           *)
(*                                                                         *)
(* crate::math (Vector3, Ray, Interval) is not among the source files; its *)
(* operations are modelled from the operations the call sites use and the  *)
(* contracts the specification states for them.                            *)
(***************************************************************************)
EXTENDS Integers, Sequences, FiniteSets, TLC

VARIABLES surface, ray, box, pretest, hit, op

vars == <<surface, ray, box, pretest, hit, op>>

---------------------------------------------------------------------------
(* Bounds of the model.                                                    *)

\* Sphere radii are 1..MaxRadius in Spec and -MaxRadius..MaxRadius in SpecBox.
MaxRadius == 2
\* Ray origins of Spec have coordinates in -MaxCoord..MaxCoord.
MaxCoord == 2
\* Planes lie at distances -MaxPlaneDist..MaxPlaneDist from the origin.
MaxPlaneDist == 1
\* Boxes of SpecBox span (0, 0, 0) to a corner with coordinates in
\* 1..MaxCorner; ray origins of SpecBox have coordinates in -1..MaxCorner+1.
MaxCorner == 2

---------------------------------------------------------------------------
(* Exact arithmetic standing for f64.                                      *)

Abs(n) == IF n < 0 THEN -n ELSE n

RECURSIVE GCD(_, _)
GCD(m, n) == IF n = 0 THEN m ELSE GCD(n, m % n)

\* Lowest terms of (a + b*sqrt(q))/d; a value without a root part has q = 0.
Reduce(u) ==
    LET g == GCD(GCD(Abs(u.a), Abs(u.b)), u.d)
        bb == IF u.q = 0 THEN 0 ELSE u.b
    IN  [a |-> u.a \div g, b |-> bb \div g,
         q |-> IF bb = 0 THEN 0 ELSE u.q, d |-> u.d \div g]

\* The rational n/d, d # 0.
Rat(n, d) ==
    IF d > 0 THEN Reduce([a |-> n, b |-> 0, q |-> 0, d |-> d])
             ELSE Reduce([a |-> -n, b |-> 0, q |-> 0, d |-> -d])

Int2Num(n) == Rat(n, 1)

INFINITY == [a |-> 1, b |-> 0, q |-> 0, d |-> 0]

NEG_INFINITY == [a |-> -1, b |-> 0, q |-> 0, d |-> 0]

\* The radicand shared by two values of one computation.
RootOf(u, v) == IF u.b # 0 THEN u.q ELSE v.q

NumAdd(u, v) ==
    IF u.d = v.d
    THEN Reduce([a |-> u.a + v.a, b |-> u.b + v.b, q |-> RootOf(u, v), d |-> u.d])
    ELSE Reduce([a |-> u.a * v.d + v.a * u.d, b |-> u.b * v.d + v.b * u.d,
                 q |-> RootOf(u, v), d |-> u.d * v.d])

NumNeg(u) == [a |-> -u.a, b |-> -u.b, q |-> u.q, d |-> u.d]

NumSub(u, v) == NumAdd(u, NumNeg(v))

NumMul(u, v) ==
    LET q == RootOf(u, v)
    IN  Reduce([a |-> u.a * v.a + u.b * v.b * q, b |-> u.a * v.b + u.b * v.a,
                q |-> q, d |-> u.d * v.d])

\* u / v for a rational v # 0 (every divisor of the code is rational here).
NumDiv(u, v) ==
    IF v.a > 0
    THEN Reduce([a |-> u.a * v.d, b |-> u.b * v.d, q |-> u.q, d |-> u.d * v.a])
    ELSE Reduce([a |-> -(u.a * v.d), b |-> -(u.b * v.d), q |-> u.q, d |-> u.d * (-v.a)])

\* a + b*sqrt(q) > 0, decided without computing the root.
SignPos(a, b, q) ==
    \/ a > 0 /\ b >= 0
    \/ a >= 0 /\ b > 0 /\ q > 0
    \/ a > 0 /\ b < 0 /\ a * a > b * b * q
    \/ a < 0 /\ b > 0 /\ b * b * q > a * a

NumPos(u) == IF u.d = 0 THEN u.a > 0 ELSE SignPos(u.a, u.b, u.q)

NumNegative(u) == IF u.d = 0 THEN u.a < 0 ELSE SignPos(-u.a, -u.b, u.q)

NumIsZero(u) == ~NumPos(u) /\ ~NumNegative(u)

\* u <= v, with -inf < every finite value < +inf.
NumLeq(u, v) ==
    IF u.d = 0 \/ v.d = 0
    THEN (IF u.d = 0 THEN u.a ELSE 0) <= (IF v.d = 0 THEN v.a ELSE 0)
    ELSE ~NumPos(NumSub(u, v))

NumLt(u, v) == ~NumLeq(v, u)

NumEq(u, v) == NumLeq(u, v) /\ NumLeq(v, u)

\* f64::powi(2)
Powi2(u) == NumMul(u, u)

RECURSIVE RootFrom(_, _)
RootFrom(k, n) == IF k * k >= n THEN k ELSE RootFrom(k + 1, n)

\* The k >= 0 with k*k = n, or -1 when n is no perfect square.
ExactRoot(n) ==
    LET k == RootFrom(0, n) IN IF n >= 0 /\ k * k = n THEN k ELSE -1

\* f64::sqrt of a rational u >= 0: sqrt(n/d) = sqrt(n)/k when d = k*k,
\* sqrt(n*d)/d otherwise; a rational result when the radicand is a square.
Sqrt(u) ==
    LET k == ExactRoot(u.d)
        rad == IF k > 0 THEN u.a ELSE u.a * u.d
        den == IF k > 0 THEN k ELSE u.d
        r == ExactRoot(rad)
    IN  IF r >= 0 THEN Rat(r, den)
        ELSE Reduce([a |-> 0, b |-> 1, q |-> rad, d |-> den])

---------------------------------------------------------------------------
(* crate::math::Vector3 and Ray.                                           *)

Vector3(x, y, z) == [x |-> x, y |-> y, z |-> z]

\* Vector3 built from integer coordinates.
Point(x, y, z) == Vector3(Int2Num(x), Int2Num(y), Int2Num(z))

\* Vector3::ones
Ones == Point(1, 1, 1)

VecAdd(u, v) == Vector3(NumAdd(u.x, v.x), NumAdd(u.y, v.y), NumAdd(u.z, v.z))

VecSub(u, v) == Vector3(NumSub(u.x, v.x), NumSub(u.y, v.y), NumSub(u.z, v.z))

\* scalar * Vector3 and Vector3 * scalar
Scale(s, v) == Vector3(NumMul(s, v.x), NumMul(s, v.y), NumMul(s, v.z))

Dot(u, v) == NumAdd(NumAdd(NumMul(u.x, v.x), NumMul(u.y, v.y)), NumMul(u.z, v.z))

Norm2(v) == Dot(v, v)

\* Vector3::normalize: division by the norm.  The result stands for
\* (x, y, z) / sqrt(over2): when the norm is rational the division is carried
\* out and over2 = 1, otherwise the squared norm is kept as over2.
Normalize(v) ==
    LET n2 == Norm2(v)
        n == IF n2.b = 0 /\ n2.a > 0 THEN Sqrt(n2) ELSE n2
    IN  IF n2.b = 0 /\ n2.a > 0 /\ n.b = 0
        THEN [x |-> NumDiv(v.x, n), y |-> NumDiv(v.y, n), z |-> NumDiv(v.z, n),
              over2 |-> Int2Num(1)]
        ELSE [x |-> v.x, y |-> v.y, z |-> v.z, over2 |-> n2]

Ray(origin, direction) == [origin |-> origin, direction |-> direction]

---------------------------------------------------------------------------
(* crate::math::Interval: a closed interval; new orders its two arguments, *)
(* intersection yields the overlap or nothing.                             *)

IntervalNew(t0, t1) ==
    IF NumLeq(t0, t1) THEN [lo |-> t0, hi |-> t1] ELSE [lo |-> t1, hi |-> t0]

NoInterval == [lo |-> INFINITY, hi |-> NEG_INFINITY]

IsNone(i) == i = NoInterval

Intersection(i, j) ==
    LET lo == IF NumLeq(i.lo, j.lo) THEN j.lo ELSE i.lo
        hi == IF NumLeq(i.hi, j.hi) THEN i.hi ELSE j.hi
    IN  IF NumLeq(lo, hi) THEN [lo |-> lo, hi |-> hi] ELSE NoInterval

GetEndpoints(i) == <<i.lo, i.hi>>

---------------------------------------------------------------------------
(* BoundingBox                                                             *)

\* BoundingBox::new: the corners are stored as passed.
BoundingBoxNew(first_corner, second_corner) ==
    [corners |-> <<first_corner, second_corner>>]

\* The x axis: the slab's interval, or everything when the ray does not
\* move along the axis.
FirstSlab(c0, c1, o, d) ==
    IF ~NumIsZero(d)
    THEN IntervalNew(NumDiv(NumSub(c0, o), d), NumDiv(NumSub(c1, o), d))
    ELSE IntervalNew(NEG_INFINITY, INFINITY)

\* The y and z axes: the running interval cut by the slab's interval when
\* the ray moves along the axis, and left alone otherwise.
NarrowBySlabZeroAxisMiss(t_interval, c0, c1, o, d) ==
    IF ~NumIsZero(d)
    THEN Intersection(t_interval,
                      IntervalNew(NumDiv(NumSub(c0, o), d), NumDiv(NumSub(c1, o), d)))
    ELSE IF NumLeq(c0, o) /\ NumLeq(o, c1) THEN t_interval ELSE NoInterval

NarrowBySlab(t_interval, c0, c1, o, d) ==
    IF ~NumIsZero(d)
    THEN Intersection(t_interval,
                      IntervalNew(NumDiv(NumSub(c0, o), d), NumDiv(NumSub(c1, o), d)))
    ELSE t_interval

\* The closing test on the endpoints of the final interval.
EndpointTestLowerOnly(endpoints) == NumLeq(Int2Num(0), endpoints[1])

EndpointTest(endpoints) ==
    NumLeq(Int2Num(0), endpoints[1]) \/ NumLeq(Int2Num(0), endpoints[2])

\* BoundingBox::intersects without the z axis.
IntersectsTwoAxes(b, r) ==
    LET c0 == b.corners[1]
        c1 == b.corners[2]
        tx == FirstSlab(c0.x, c1.x, r.origin.x, r.direction.x)
        ty == NarrowBySlab(tx, c0.y, c1.y, r.origin.y, r.direction.y)
    IN  IF IsNone(ty) THEN FALSE ELSE EndpointTest(GetEndpoints(ty))

\* BoundingBox::intersects
Intersects(b, r) ==
    LET c0 == b.corners[1]
        c1 == b.corners[2]
        tx == FirstSlab(c0.x, c1.x, r.origin.x, r.direction.x)
        ty == NarrowBySlab(tx, c0.y, c1.y, r.origin.y, r.direction.y)
        tz == IF IsNone(ty) THEN ty
              ELSE NarrowBySlab(ty, c0.z, c1.z, r.origin.z, r.direction.z)
    IN  IF IsNone(ty) THEN FALSE
        ELSE IF IsNone(tz) THEN FALSE
        ELSE EndpointTest(GetEndpoints(tz))

---------------------------------------------------------------------------
(* Surface: Option<(f64, Vector3)>                                         *)

None == [some |-> FALSE]

Some(distance, normal) == [some |-> TRUE, dist |-> distance, normal |-> normal]

---------------------------------------------------------------------------
(* Plane                                                                   *)

PlaneNew(normal_vec, distance_from_origin) ==
    [kind |-> "plane", normal_vec |-> Normalize(normal_vec),
     distance_from_origin |-> distance_from_origin]

\* Plane::closest_intersection accepting a hit at distance 0.
PlaneClosestIntersectionAtZero(p, r) ==
    LET ray_direction_dot_normal == Dot(r.direction, p.normal_vec)
    IN  IF NumIsZero(ray_direction_dot_normal) THEN None
        ELSE LET distance_to_intersection ==
                     NumDiv(NumSub(p.distance_from_origin, Dot(r.origin, p.normal_vec)),
                            ray_direction_dot_normal)
             IN  IF ~NumNegative(distance_to_intersection)
                 THEN Some(distance_to_intersection, p.normal_vec)
                 ELSE None

\* Plane::closest_intersection
PlaneClosestIntersection(p, r) ==
    LET ray_direction_dot_normal == Dot(r.direction, p.normal_vec)
    IN  IF NumIsZero(ray_direction_dot_normal) THEN None
        ELSE LET distance_to_intersection ==
                     NumDiv(NumSub(p.distance_from_origin, Dot(r.origin, p.normal_vec)),
                            ray_direction_dot_normal)
             IN  IF NumPos(distance_to_intersection)
                 THEN Some(distance_to_intersection, p.normal_vec)
                 ELSE None

---------------------------------------------------------------------------
(* Sphere                                                                  *)

SphereNew(center_pos, radius) ==
    [kind |-> "sphere", center_pos |-> center_pos, radius |-> radius]

\* Sphere::bounding_box without the radius added to the second corner.
BoundingBoxLowHalf(s) ==
    LET radius_vec == Scale(s.radius, Ones)
    IN  BoundingBoxNew(VecSub(s.center_pos, radius_vec), s.center_pos)

\* Sphere::bounding_box with half the extent.
BoundingBoxHalf(s) ==
    LET radius_vec == Scale(NumDiv(s.radius, Int2Num(2)), Ones)
    IN  BoundingBoxNew(VecSub(s.center_pos, radius_vec), VecAdd(s.center_pos, radius_vec))

\* Sphere::bounding_box
BoundingBox(s) ==
    LET radius_vec == Scale(s.radius, Ones)
    IN  BoundingBoxNew(VecSub(s.center_pos, radius_vec), VecAdd(s.center_pos, radius_vec))

OriginToCenter(s, r) == VecSub(s.center_pos, r.origin)

OriginToCenterDotDir(s, r) == Dot(OriginToCenter(s, r), r.direction)

Discriminant(s, r) ==
    NumSub(Powi2(OriginToCenterDotDir(s, r)),
           NumSub(Norm2(OriginToCenter(s, r)), Powi2(s.radius)))

\* The normal at parameter t: normalize(direction * t - origin_to_center).
SphereNormal(s, r, t) ==
    Normalize(VecSub(Scale(t, r.direction), OriginToCenter(s, r)))

\* The quadratic test returning the far root without testing its sign.
QuadraticTestFarUnchecked(s, r) ==
    LET proj == OriginToCenterDotDir(s, r)
        discriminant == Discriminant(s, r)
    IN  IF NumNegative(discriminant) THEN None
        ELSE LET near == NumSub(proj, Sqrt(discriminant))
                 far == NumAdd(proj, Sqrt(discriminant))
                 t == IF ~NumPos(near) THEN far ELSE near
             IN  Some(t, SphereNormal(s, r, t))

\* The quadratic test trying the far root first.
QuadraticTestFarFirst(s, r) ==
    LET proj == OriginToCenterDotDir(s, r)
        discriminant == Discriminant(s, r)
    IN  IF NumNegative(discriminant) THEN None
        ELSE LET near == NumSub(proj, Sqrt(discriminant))
                 far == NumAdd(proj, Sqrt(discriminant))
             IN  IF ~NumPos(far) THEN None
                 ELSE Some(far, SphereNormal(s, r, far))

\* The quadratic test of Sphere::closest_intersection (the branch taken when
\* the bounding box is hit).
QuadraticTest(s, r) ==
    LET proj == OriginToCenterDotDir(s, r)
        discriminant == Discriminant(s, r)
    IN  IF NumNegative(discriminant) THEN None
        ELSE LET near == NumSub(proj, Sqrt(discriminant))
                 far == NumAdd(proj, Sqrt(discriminant))
             IN  IF ~NumPos(near)
                 THEN IF ~NumPos(far) THEN None
                      ELSE Some(far, SphereNormal(s, r, far))
                 ELSE Some(near, SphereNormal(s, r, near))

\* Sphere::closest_intersection
SphereClosestIntersection(s, r) ==
    IF Intersects(BoundingBox(s), r) THEN QuadraticTest(s, r) ELSE None

---------------------------------------------------------------------------
(* Inputs                                                                  *)

\* Integer directions have components in IntDirRange; unit directions have
\* numerators in UnitDirRange over one of Denominators, so that unit
\* directions off the axes are among the inputs.
IntDirRange == -1..1

UnitDirRange == -2..2

Denominators == {1, 3}

IsUnit(v) == NumEq(Norm2(v), Int2Num(1))

IsZeroVec(v) == NumIsZero(v.x) /\ NumIsZero(v.y) /\ NumIsZero(v.z)

Directions ==
    {Vector3(Rat(x, 1), Rat(y, 1), Rat(z, 1)) :
        x \in IntDirRange, y \in IntDirRange, z \in IntDirRange}
    \cup
    {v \in {Vector3(Rat(x, d), Rat(y, d), Rat(z, d)) :
                x \in UnitDirRange, y \in UnitDirRange, z \in UnitDirRange,
                d \in Denominators} :
        IsUnit(v)}

Origins ==
    {Point(x, y, z) : x \in -MaxCoord..MaxCoord, y \in -MaxCoord..MaxCoord,
                      z \in -MaxCoord..MaxCoord}

Rays == {Ray(o, d) : o \in Origins, d \in Directions}

SphereCenters == {Point(0, 0, 0), Point(1, 0, 0)}

Spheres == {SphereNew(c, Int2Num(r)) : c \in SphereCenters, r \in 1..MaxRadius}

\* Plane::new is given normals whose length is rational, so that the stored
\* unit normal is exact.
PlaneNormals ==
    {v \in {Vector3(Rat(x, 1), Rat(y, 1), Rat(z, 1)) :
                x \in UnitDirRange, y \in UnitDirRange, z \in UnitDirRange} :
        ExactRoot(Norm2(v).a) > 0}

Planes == {PlaneNew(n, Int2Num(k)) : n \in PlaneNormals, k \in -MaxPlaneDist..MaxPlaneDist}

PlaneOrigins == {Point(x, y, 0) : x \in -1..1, y \in -1..1}

PlaneRays == {Ray(o, d) : o \in PlaneOrigins, d \in Directions}

NoSurface == [kind |-> "none"]

NoBox == [corners |-> <<>>]

\* The far corners (hx, hy, MaxCorner) of the boxes built from (0, 0, 0).
FarCorners == {Point(hx, hy, MaxCorner) : hx \in 1..MaxCorner, hy \in 1..MaxCorner}

BoxOrigins ==
    {Point(x, y, z) : x \in -1..(MaxCorner + 1), y \in -1..(MaxCorner + 1),
                      z \in -1..(MaxCorner + 1)}

BoxDirections ==
    {Vector3(Rat(x, 1), Rat(y, 1), Rat(z, 1)) :
        x \in UnitDirRange, y \in UnitDirRange, z \in UnitDirRange}

BoxRays == {Ray(o, d) : o \in BoxOrigins, d \in BoxDirections}

\* Sphere::new accepts any radius.
AnySpheres ==
    {SphereNew(c, Int2Num(r)) : c \in SphereCenters, r \in -MaxRadius..MaxRadius}

---------------------------------------------------------------------------
(* Surface queries: a surface and a ray are built, then the ray is cast.   *)

Init ==
    /\ surface \in Spheres \cup Planes
    /\ ray \in IF surface.kind = "sphere" THEN Rays ELSE PlaneRays
    /\ box = NoBox
    /\ pretest = FALSE
    /\ hit = None
    /\ op = "new"

\* Surface::closest_intersection on a Sphere.
CastSphere ==
    /\ op = "new"
    /\ surface.kind = "sphere"
    /\ box' = BoundingBox(surface)
    /\ pretest' = Intersects(BoundingBox(surface), ray)
    /\ hit' = SphereClosestIntersection(surface, ray)
    /\ op' = "sphere"
    /\ UNCHANGED <<surface, ray>>

\* Surface::closest_intersection on a Plane.
CastPlane ==
    /\ op = "new"
    /\ surface.kind = "plane"
    /\ hit' = PlaneClosestIntersection(surface, ray)
    /\ op' = "plane"
    /\ UNCHANGED <<surface, ray, box, pretest>>

Next == CastSphere \/ CastPlane

Spec == Init /\ [][Next]_vars

---------------------------------------------------------------------------
(* Bounding boxes: a ray is given, a box is built from two corners or from *)
(* a sphere, then tested against the ray.                                  *)

InitBox ==
    /\ surface = NoSurface
    /\ ray \in BoxRays
    /\ box = NoBox
    /\ pretest = FALSE
    /\ hit = None
    /\ op = "new"

\* BoundingBox::new, the two opposite corners passed in either order.
MakeBox ==
    /\ op = "new"
    /\ \E far \in FarCorners :
          \/ box' = BoundingBoxNew(Point(0, 0, 0), far)
          \/ box' = BoundingBoxNew(far, Point(0, 0, 0))
    /\ op' = "box"
    /\ UNCHANGED <<surface, ray, pretest, hit>>

\* Sphere::new followed by Sphere::bounding_box
MakeSphereBox ==
    /\ op = "new"
    /\ \E s \in AnySpheres : surface' = s /\ box' = BoundingBox(s)
    /\ op' = "box"
    /\ UNCHANGED <<ray, pretest, hit>>

\* BoundingBox::intersects
IntersectBox ==
    /\ op = "box"
    /\ pretest' = Intersects(box, ray)
    /\ op' = "intersects"
    /\ UNCHANGED <<surface, ray, box, hit>>

NextBox == MakeBox \/ MakeSphereBox \/ IntersectBox

SpecBox == InitBox /\ [][NextBox]_vars

---------------------------------------------------------------------------
(* Properties of BoundingBox (checked under SpecBox).                      *)

Axes == {"x", "y", "z"}

Zero == Int2Num(0)

\* The corners are ordered on every axis.
CornersOrdered(b) ==
    \A ax \in Axes : NumLeq(b.corners[1][ax], b.corners[2][ax])

\* p lies in the closed box b.
InBox(b, p) ==
    \A ax \in Axes : NumLeq(b.corners[1][ax], p[ax]) /\ NumLeq(p[ax], b.corners[2][ax])

\* p lies strictly inside b.
StrictlyInside(b, p) ==
    \A ax \in Axes : NumLt(b.corners[1][ax], p[ax]) /\ NumLt(p[ax], b.corners[2][ax])

\* The point origin + t * direction.
PointAt(r, t) == VecAdd(r.origin, Scale(t, r.direction))

\* The parameters at which the ray crosses one of the six planes of the box,
\* and 0: when some t >= 0 puts the ray in the box, one of these does.
CrossingParameters(b, r) ==
    {Zero} \cup
    {NumDiv(NumSub(b.corners[i][ax], r.origin[ax]), r.direction[ax]) :
        i \in {1, 2}, ax \in {a \in Axes : ~NumIsZero(r.direction[a])}}

\* Some t >= 0 puts origin + t * direction in the closed box.
RayEntersBox(b, r) ==
    \E t \in CrossingParameters(b, r) : NumLeq(Zero, t) /\ InBox(b, PointAt(r, t))

\* C5: a ray whose origin lies strictly inside the box is reported as
\* intersecting it, whatever its direction (zero and negative components
\* included).
C5_InsideOriginIntersects ==
    (op = "intersects" /\ StrictlyInside(box, ray.origin)) => pretest = TRUE

\* Reached: an origin strictly inside with a direction that has a zero and a
\* negative component.
C5_Witness ==
    /\ op = "intersects"
    /\ StrictlyInside(box, ray.origin)
    /\ NumIsZero(ray.direction.x)
    /\ NumNegative(ray.direction.y)
    /\ pretest = TRUE

\* C6: every BoundingBox has its first corner componentwise less than or
\* equal to its second corner, whatever order the corners were passed in and
\* whatever radius the sphere it was built from has.
C6_CornersAlwaysOrdered == box # NoBox => CornersOrdered(box)

\* C8: with ordered corners and a direction with no zero component,
\* intersects is true exactly when some t >= 0 puts origin + t*direction in
\* the closed box.
C8_IntersectsIffRayEntersBox ==
    (/\ op = "intersects"
     /\ CornersOrdered(box)
     /\ \A ax \in Axes : ~NumIsZero(ray.direction[ax]))
    => (pretest = RayEntersBox(box, ray))

\* Reached: a ray with a negative direction component that starts outside the
\* box and enters it.
C8_Witness ==
    /\ op = "intersects"
    /\ CornersOrdered(box)
    /\ \A ax \in Axes : ~NumIsZero(ray.direction[ax])
    /\ \E ax \in Axes : NumNegative(ray.direction[ax])
    /\ ~InBox(box, ray.origin)
    /\ pretest = TRUE

\* Reached: a box that the line of the ray crosses, but only behind the
\* origin, is reported as missed.
C8_WitnessBehind ==
    /\ op = "intersects"
    /\ CornersOrdered(box)
    /\ \A ax \in Axes : ~NumIsZero(ray.direction[ax])
    /\ \E t \in CrossingParameters(box, ray) : InBox(box, PointAt(ray, t))
    /\ pretest = FALSE

\* The box and the ray with their coordinates on one axis set to 0.
FlattenBox(b, ax) ==
    [corners |-> <<[b.corners[1] EXCEPT ![ax] = Zero], [b.corners[2] EXCEPT ![ax] = Zero]>>]

FlattenRay(r, ax) == [r EXCEPT !.origin = [r.origin EXCEPT ![ax] = Zero]]

\* C9: an axis on which the direction is zero contributes no constraint: the
\* result is the one obtained with the origin's and the corners' coordinates
\* on that axis replaced (by 0), so it depends on none of them; and every
\* ray with the zero direction is reported as intersecting.
C9_ZeroAxisUnconstrained ==
    op = "intersects" =>
        /\ \A ax \in Axes :
              NumIsZero(ray.direction[ax]) =>
                  pretest = Intersects(FlattenBox(box, ax), FlattenRay(ray, ax))
        /\ IsZeroVec(ray.direction) => pretest = TRUE

\* Reached: a ray that never enters the box, its origin outside the slab on
\* an axis it does not move along, is reported as intersecting.
C9_Witness ==
    /\ op = "intersects"
    /\ CornersOrdered(box)
    /\ ~IsZeroVec(ray.direction)
    /\ \E ax \in Axes :
          /\ NumIsZero(ray.direction[ax])
          /\ ~(NumLeq(box.corners[1][ax], ray.origin[ax])
                /\ NumLeq(ray.origin[ax], box.corners[2][ax]))
    /\ ~RayEntersBox(box, ray)
    /\ pretest = TRUE

---------------------------------------------------------------------------
(* Properties of Surface::closest_intersection (checked under Spec).       *)

\* The quantities the sphere properties are stated in.
Oc == VecSub(surface.center_pos, ray.origin)

Proj == Dot(Oc, ray.direction)

Disc == NumSub(NumMul(Proj, Proj), NumSub(Norm2(Oc), NumMul(surface.radius, surface.radius)))

NearRoot == NumSub(Proj, Sqrt(Disc))

FarRoot == NumAdd(Proj, Sqrt(Disc))

\* C1: a reported intersection distance is strictly greater than 0, for
\* spheres and for planes.
C1_DistancePositive ==
    (op \in {"sphere", "plane"} /\ hit.some) => NumPos(hit.dist)

\* Reached: a ray that starts on the sphere (its near root is 0) and is
\* answered with the far root.
C1_Witness ==
    /\ op = "sphere"
    /\ hit.some
    /\ ~NumNegative(Disc)
    /\ NumIsZero(NearRoot)

\* C2: for a ray that passes the bounding-box test the sphere reports
\* nothing when disc < 0, else proj - sqrt(disc) when that is > 0, else
\* proj + sqrt(disc) when that is > 0, else nothing; what it reports is the
\* smallest strictly positive root.
C2_SmallestPositiveRoot ==
    (op = "sphere" /\ pretest) =>
        IF NumNegative(Disc) THEN ~hit.some
        ELSE /\ NumPos(NearRoot) => hit.some /\ NumEq(hit.dist, NearRoot)
             /\ (~NumPos(NearRoot) /\ NumPos(FarRoot)) =>
                    hit.some /\ NumEq(hit.dist, FarRoot)
             /\ (~NumPos(NearRoot) /\ ~NumPos(FarRoot)) => ~hit.some
             /\ hit.some =>
                    \A root \in {NearRoot, FarRoot} :
                        NumPos(root) => NumLeq(hit.dist, root)

\* Reached: a ray from outside the sphere with two distinct positive roots,
\* answered with the near one.
C2_Witness ==
    /\ op = "sphere"
    /\ pretest
    /\ NumPos(Disc)
    /\ NumPos(NearRoot)
    /\ hit.some
    /\ NumLt(hit.dist, FarRoot)

\* Reached: a sphere entirely behind a ray that passes the bounding-box test
\* (both roots <= 0): nothing is reported.
C2_WitnessBehind ==
    /\ op = "sphere"
    /\ pretest
    /\ ~NumNegative(Disc)
    /\ ~NumPos(FarRoot)
    /\ ~hit.some

\* The ray origin lies strictly inside the sphere.
OriginInsideSphere == NumLt(Norm2(Oc), NumMul(surface.radius, surface.radius))

\* C3: a ray whose origin lies strictly inside the sphere is answered, for
\* any direction, with the far root proj + sqrt(disc), which is strictly
\* positive; never with nothing and never with the near root.
C3_InsideGetsFarRoot ==
    (op = "sphere" /\ OriginInsideSphere) =>
        /\ hit.some
        /\ NumEq(hit.dist, FarRoot)
        /\ NumPos(hit.dist)
        /\ ~NumEq(hit.dist, NearRoot)

\* Reached: an origin strictly inside the sphere, off its centre, with a
\* direction that has a negative component.
C3_Witness ==
    /\ op = "sphere"
    /\ OriginInsideSphere
    /\ ~IsZeroVec(Oc)
    /\ NumNegative(ray.direction.x)
    /\ hit.some

\* C4: with d = dot(direction, normal) the plane reports nothing when d = 0;
\* otherwise, with t = (distance_from_origin - dot(origin, normal)) / d, it
\* reports (t, stored normal) exactly when t > 0.  The point at t lies on the
\* plane, and the normal reported is the stored one, not flipped.
C4_PlaneIntersection ==
    op = "plane" =>
        LET d == Dot(ray.direction, surface.normal_vec)
            num == NumSub(surface.distance_from_origin, Dot(ray.origin, surface.normal_vec))
        IN  IF NumIsZero(d) THEN ~hit.some
            ELSE /\ hit.some = NumPos(NumDiv(num, d))
                 /\ hit.some =>
                        /\ NumEq(NumMul(hit.dist, d), num)
                        /\ NumEq(Dot(VecAdd(ray.origin, Scale(hit.dist, ray.direction)),
                                     surface.normal_vec),
                                 surface.distance_from_origin)
                        /\ hit.normal = surface.normal_vec

\* Reached: a plane hit from behind (the ray travels along the normal) with
\* a normal off the axes; the stored normal is reported.
C4_Witness ==
    /\ op = "plane"
    /\ hit.some
    /\ NumPos(Dot(ray.direction, surface.normal_vec))
    /\ ~NumIsZero(surface.normal_vec.x)
    /\ ~NumIsZero(surface.normal_vec.y)
    /\ hit.normal = surface.normal_vec

\* Reached: a ray parallel to a plane off the axes gets nothing.
C4_WitnessParallel ==
    /\ op = "plane"
    /\ ~IsZeroVec(ray.direction)
    /\ NumIsZero(Dot(ray.direction, surface.normal_vec))
    /\ ~NumIsZero(surface.normal_vec.x)
    /\ ~hit.some

\* The reported hit point origin + t * direction.
HitPoint == VecAdd(ray.origin, Scale(hit.dist, ray.direction))

\* The reported hit point lies on the sphere.
HitOnSphere ==
    NumEq(Norm2(VecSub(HitPoint, surface.center_pos)),
          NumMul(surface.radius, surface.radius))

\* C7: for every ray with a nonzero direction, of any length, the point at
\* the reported distance lies on the sphere and the reported normal is the
\* direction from the centre to that point.
C7_HitPointOnSphere ==
    (op = "sphere" /\ hit.some /\ ~IsZeroVec(ray.direction)) =>
        /\ HitOnSphere
        /\ hit.normal = Normalize(VecSub(HitPoint, surface.center_pos))

\* The same for directions of unit length.
C7_UnitHitPointOnSphere ==
    (op = "sphere" /\ hit.some /\ IsUnit(ray.direction)) =>
        /\ HitOnSphere
        /\ hit.normal = Normalize(VecSub(HitPoint, surface.center_pos))

\* C10: for directions of unit length the bounding-box test changes
\* nothing: the sphere reports what the quadratic test alone reports.
C10_PretestConservative ==
    (op = "sphere" /\ IsUnit(ray.direction)) => hit = QuadraticTest(surface, ray)

\* The same for every direction.
C10_AnyDirection ==
    op = "sphere" => hit = QuadraticTest(surface, ray)

\* Reached: a unit direction off the axes whose line crosses the sphere
\* behind the origin: the box test rejects it and the quadratic test alone
\* reports nothing either.
C10_Witness ==
    /\ op = "sphere"
    /\ IsUnit(ray.direction)
    /\ ~NumIsZero(ray.direction.x)
    /\ ~NumIsZero(ray.direction.y)
    /\ ~pretest
    /\ ~NumNegative(Disc)

\* Reached: a unit direction off the axes that passes the box test and hits.
C10_WitnessHit ==
    /\ op = "sphere"
    /\ IsUnit(ray.direction)
    /\ ~NumIsZero(ray.direction.x)
    /\ ~NumIsZero(ray.direction.y)
    /\ pretest
    /\ hit.some

=============================================================================
